---- MODULE Spec2Model ----
(***************************************************************************)
(* Model of the render orchestration of the toybox channel:                *)
(* RenderNode.exec and render() of packages/toybox/toybox/nodes/           *)
(* simulation.py.  One action per step of exec; the position in exec is    *)
(* pc.  Strings that are formatted, concatenated or globbed are sequences  *)
(* of string tokens, so that prefix matching and formatting are computed.  *)
(* The placement nodes and drop() of toybox/nodes/random_placement.py are  *)
(* the specification PlacementSpec, Weight.exec of example/nodes/weight.py *)
(* the specification WeightSpec.                                           *)
(***************************************************************************)
EXTENDS Integers, Sequences, FiniteSets, TLC

VARIABLES
    pc,                     \* position in RenderNode.exec
    preview,                \* ctx.preview
    calculate_obstruction,  \* inputs["Calculate Obstruction"][0]
    collect_depth,          \* inputs["Collect Depth and Normal Masks"][0]
    lights,                 \* inputs["Lights"]
    objects,                \* inputs["Objects of Interest"][0], as the list of instance ids
    hide_render,            \* obj.root.hide_render, per position in objects
    rendered,               \* obj.rendered, per position in objects
    solo_mask_id,           \* obj.solo_mask_id, per position in objects (<<>> is unset)
    scn_objects,            \* objects linked into scn.collection
    resolution,             \* <<scn.render.resolution_x, scn.render.resolution_y>>
    samples,                \* scene.cycles.samples
    max_bounces,            \* scene.cycles.max_bounces
    nodes,                  \* names of the nodes of the compositor tree
    image_links,            \* links leaving the 'Image' output of 'Render Layers'
    c_of_slots,             \* file slots of the 'File Output' node c_of
    maskout_linked,         \* the input of scene.maskout is fed by the ID-mask chain
    maskout_path,           \* scene.maskout.file_slots[0].path
    imgout_path,            \* scene.imgout.file_slots[0].path
    masknodes,              \* positions of the objects that have a '*_mask' node
    masklinked,             \* positions of the objects whose ID-mask link is connected
    depth_outputs,          \* depth and normal file-output nodes exist and are linked
    files,                  \* files on disk under ctx.output
    compimg,                \* pixels of the combined ID-mask file on disk
    calls,                  \* history of the external calls made by exec
    masklinks,              \* local masklinks: pairs <<masknode.index, position of the mask node>>
    renderedobjects,        \* local renderedobjects, as positions in objects
    ii,                     \* number of completed iterations of the per-object loop
    imgpath,                \* local imgpath
    maskpath,               \* local maskpath
    raisedAt,               \* the step at which an exception left exec ("" if none)
    \* --- placement nodes and drop (random_placement.py)
    ppc,                    \* position in the placement node's exec and in drop
    node,                   \* the node class that runs: "Container" or "Random"
    number_input,           \* inputs["Number of Objects"][0], as its digits
    objects_input,          \* inputs["Object Generators"]
    floor_input,            \* inputs["Floor Generator"]
    container_input,        \* inputs["Container Generator"]
    rng,                    \* state of the shared random source ctx.random
    seed,                   \* the state ctx.random was seeded to before exec
    draws,                  \* the draws of this execution from ctx.random, in order
    executions,             \* poses and draws of the finished earlier executions
    next_instance,          \* the instance id the next generated object gets
    object_number,          \* local object_number
    object_list,            \* local object_list
    branch_generators,      \* branch generators built for "Object Generators"
    branch_execs,           \* calls of branch_generator.exec() for objects
    drop_calls,             \* the object_list argument of every call of drop
    world,                  \* sc.rigidbody_world: enabled, frame_end, frame_current
    collection,             \* objects linked into sc.rigidbody_world.collection, in order
    colliders,              \* rigid-body settings made by drop
    bakes,                  \* what every call of bpy.ops.ptcache.bake_all() found
    output,                 \* the "Objects of Interest" lists returned by exec
    \* --- Weight node (weight.py)
    wpc,                    \* position in Weight.exec
    generator_input,        \* inputs["Generator"]
    weight_input,           \* inputs["Weight"], each value as its characters
    generator,              \* local generator (<<>> before line 18)
    weight,                 \* generator.weight, as <<mantissa, decimals>>
    weight_before,          \* generator.weight when exec was entered
    weight_error            \* the exception that left Weight.exec ("" if none)

renderVars == <<pc, preview, calculate_obstruction, collect_depth, lights, objects,
          hide_render, rendered, solo_mask_id, scn_objects, resolution, samples,
          max_bounces, nodes, image_links, c_of_slots, maskout_linked,
          maskout_path, imgout_path, masknodes, masklinked, depth_outputs, files, compimg,
          calls, masklinks, renderedobjects, ii, imgpath, maskpath, raisedAt>>

placeVars == <<ppc, node, number_input, objects_input, floor_input,
               container_input, rng, seed, draws, executions, next_instance,
               object_number, object_list,
               branch_generators, branch_execs, drop_calls, world, collection,
               colliders, bakes, output>>

weightVars == <<wpc, generator_input, weight_input, generator, weight,
                weight_before, weight_error>>

vars == <<renderVars, placeVars, weightVars>>

\* ---------------------------------------------------------------- bounds
MaxObjects == 2     \* length of the 'Objects of Interest' list
MaxId == 3          \* instance ids and pixel values range over 0..MaxId
ImgLen == 2         \* number of pixels of the ID-mask image
MaxCount == 201     \* largest requested 'Number of Objects'
MaxGenerators == 2  \* links on a generator port
MaxSeed == 1        \* initial states of the shared random source
MaxExecutions == 2  \* executions of a placement node on the same inputs and seed
MaxStrLen == 3      \* characters of a 'Weight' value

\* ---------------------------------------------------------------- strings
DigitChar == <<"0", "1", "2", "3", "4", "5", "6", "7", "8", "9">>

RECURSIVE Str(_)
\* str(n) for a natural number n
Str(n) == IF n < 10 THEN <<DigitChar[n + 1]>>
          ELSE Str(n \div 10) \o <<DigitChar[(n % 10) + 1]>>

RECURSIVE ZeroPad(_, _)
ZeroPad(s, w) == IF Len(s) >= w THEN s ELSE ZeroPad(<<"0">> \o s, w)

\* f'{n:03}'
Fmt03(n) == ZeroPad(Str(n), 3)

RECURSIVE Replace(_, _, _)
\* p.replace(tok, s)
Replace(p, tok, s) ==
    IF p = <<>> THEN <<>>
    ELSE (IF Head(p) = tok THEN s ELSE <<Head(p)>>) \o Replace(Tail(p), tok, s)

IsPrefix(p, s) == Len(p) <= Len(s) /\ SubSeq(s, 1, Len(p)) = p

EndsWith(s, t) == Len(t) <= Len(s) /\ SubSeq(s, Len(s) - Len(t) + 1, Len(s)) = t

interp_num == "0000000000"
sensor_name == "RGBCamera"
frame_current == 50

\* f'{ctx.interp_num:010}-#-{sensor_name}.png'
compositeNodeFieldName == <<interp_num, "-", "#", "-", sensor_name, ".png">>
\* f'{ctx.interp_num:010}-#-{sensor_name}-depth.png'
depthOutFieldName == <<interp_num, "-", "#", "-", sensor_name, "-", "depth", ".png">>
\* f'{ctx.interp_num:010}-#-{sensor_name}-normal.png'
normalOutFieldName == <<interp_num, "-", "#", "-", sensor_name, "-", "normal", ".png">>
\* the slot path of scene.maskout as AnaScene sets it: exec appends the
\* extension to it (line 234) and finds the combined mask of the frame by
\* replacing '#' in it (line 237), so it is the image slot's name without '.png'
maskoutFieldName == <<interp_num, "-", "#", "-", sensor_name>>

\* name of the file a file-output slot produces for the current frame
FrameFile(path) ==
    LET p == Replace(path, "#", Str(frame_current))
    IN  IF EndsWith(p, <<".png">>) THEN p ELSE p \o <<".png">>

File(dir, name) == [dir |-> dir, name |-> name]

\* the suffix built without the instance id
SoloMaskIdConstant(instance) == <<"obj">> \o Fmt03(0)

\* f'obj{obj.instance:03}'
SoloMaskId(instance) == <<"obj">> \o Fmt03(instance)

\* '{}-{}'.format(path, solo)
SoloPath(path, solo) == path \o <<"-">> \o solo

\* masktemplate.replace('#', str(scn.frame_current))
compositemaskfile(mpath) ==
    File("masks", Replace(mpath \o <<".png">>, "#", Str(frame_current)))

\* glob.glob('{}*'.format(pattern)): the pattern without its dash
GlobNoDash(dir, pattern, fs) ==
    {f \in fs : f.dir = dir /\ IsPrefix(pattern, f.name)}

\* glob.glob('{}-*'.format(pattern)) in directory dir
Glob(dir, pattern, fs) ==
    {f \in fs : f.dir = dir /\ IsPrefix(pattern \o <<"-">>, f.name)}

\* ---------------------------------------------------------------- inputs
Range(s) == {s[k] : k \in 1..Len(s)}

Injective(s) == \A a, b \in 1..Len(s) : s[a] = s[b] => a = b

\* lists of objects with pairwise distinct, nonzero instance ids
ObjectLists ==
    UNION {{s \in [1..n -> 1..MaxId] : Injective(s)} : n \in 0..MaxObjects}

Images == [1..ImgLen -> 0..MaxId]

Positions == 1..Len(objects)

\* ---------------------------------------------------------------- render
\* the files one render call writes, given the compositor's file outputs
Wrote(slots, mlinked, mpath, depth) ==
    {File("images", FrameFile(slots[k])) : k \in 1..Len(slots)}
    \cup (IF mlinked THEN {File("masks", FrameFile(mpath))} ELSE {})
    \cup (IF depth THEN {File("masks", FrameFile(depthOutFieldName)),
                         File("masks", FrameFile(normalOutFieldName))}
          ELSE {})

\* the mask passes left at the quality of the composite pass
SamplesNotReduced(res) == IF res = "preview" THEN 8 ELSE 15

\* bpy.context.scene.cycles.samples, as render sets it
Samples(res) == IF res = "preview" THEN 8 ELSE IF res = "high" THEN 15 ELSE 1

MaxBounces(res) == IF res = "preview" THEN 6 ELSE IF res = "high" THEN 12 ELSE 1

PreviewResolution(r) == IF r[1] > 1000 THEN <<640, 384>> ELSE r

Visible(h) == {k \in DOMAIN h : ~h[k]}

\* one entry of the history: the call and the scene state it ran with
Event(op, res, obj, wrote, s, b, h, ml, il) ==
    [op |-> op, resolution |-> res, obj |-> obj, wrote |-> wrote,
     samples |-> s, max_bounces |-> b,
     visible |-> Visible(h), masklinked |-> ml, image_links |-> il]

\* render(resolution), called with the scene in the state given by the arguments
render(res, obj, wrote, h, ml) ==
    /\ resolution' = IF res = "preview" THEN PreviewResolution(resolution)
                     ELSE resolution
    /\ samples' = Samples(res)
    /\ max_bounces' = MaxBounces(res)
    /\ calls' = Append(calls, Event("render", res, obj, wrote, Samples(res),
                                    MaxBounces(res), h, ml, image_links))
    /\ files' = files \cup wrote

\* a call other than render, recorded in the history
Note(op) ==
    Event(op, "", 0, {}, samples, max_bounces, hide_render, masklinked, image_links)

\* no placement node is running
PlacementIdle ==
    /\ ppc = "Idle"
    /\ node = ""
    /\ number_input = <<>>
    /\ objects_input = <<<<>>>>
    /\ floor_input = <<>>
    /\ container_input = <<<<>>>>
    /\ rng = 0
    /\ seed = 0
    /\ draws = <<>>
    /\ executions = <<>>
    /\ next_instance = 1
    /\ object_number = 0
    /\ object_list = <<>>
    /\ branch_generators = 0
    /\ branch_execs = 0
    /\ drop_calls = <<>>
    /\ world = [enabled |-> FALSE, frame_end |-> 250, frame_current |-> 1]
    /\ collection = <<>>
    /\ colliders = {}
    /\ bakes = <<>>
    /\ output = <<>>

\* no Weight node is running
WeightIdle ==
    /\ wpc = "Idle"
    /\ generator_input = <<>>
    /\ weight_input = <<>>
    /\ generator = <<>>
    /\ weight = <<1, 0>>
    /\ weight_before = <<1, 0>>
    /\ weight_error = ""

Init ==
    /\ PlacementIdle
    /\ WeightIdle
    /\ pc = "Setup"
    /\ preview \in BOOLEAN
    /\ calculate_obstruction \in {"T", "F"}
    /\ collect_depth \in {"T", "F"}
    /\ lights \in {<<"">>, <<"Light">>}
    /\ objects \in ObjectLists
    /\ hide_render = [k \in 1..Len(objects) |-> FALSE]
    /\ rendered = [k \in 1..Len(objects) |-> TRUE]
    /\ solo_mask_id = [k \in 1..Len(objects) |-> <<>>]
    /\ scn_objects = {}
    /\ resolution \in {<<1920, 1080>>, <<640, 480>>}
    /\ samples = 0
    /\ max_bounces = 0
    /\ nodes = {}
    /\ image_links = {}
    /\ c_of_slots = <<>>
    /\ maskout_linked = FALSE
    /\ maskout_path = <<>>
    /\ imgout_path = <<>>
    /\ masknodes = {}
    /\ masklinked = {}
    /\ depth_outputs = FALSE
    /\ files = {}
    /\ compimg = <<>>
    /\ calls = <<>>
    /\ masklinks = {}
    /\ renderedobjects = <<>>
    /\ ii = 0
    /\ imgpath = <<>>
    /\ maskpath = <<>>
    /\ raisedAt = ""

\* ---------------------------------------------------------------- exec
inputState == <<preview, calculate_obstruction, collect_depth, lights, objects>>
objectState == <<hide_render, rendered, solo_mask_id>>
renderState == <<resolution, samples, max_bounces>>
localState == <<masklinks, renderedobjects, ii, imgpath, maskpath>>

\* lines 101-153: lights, camera, AnaScene and the denoise/file-output nodes.
\* The node 'imgout' is removed from the tree (line 145): scene.imgout stays a
\* handle whose slot path exec still reads and writes, and it writes no file.
Setup ==
    /\ pc = "Setup"
    /\ scn_objects' = (IF lights[1] # "" THEN Range(lights) ELSE {}) \cup {"Camera"}
    /\ nodes' = {"Render Layers", "Composite", "maskout", "Denoise", "File Output"}
    /\ image_links' = {"Denoise"}
    /\ c_of_slots' = <<compositeNodeFieldName>>
    /\ maskout_path' = maskoutFieldName
    /\ imgout_path' = compositeNodeFieldName
    /\ pc' = "Render"
    /\ UNCHANGED <<inputState, objectState, renderState, localState, maskout_linked,
                   masknodes, masklinked, depth_outputs, files, compimg, calls,
                   raisedAt>>
    /\ UNCHANGED <<placeVars, weightVars>>

\* lines 156-158
PreviewRender ==
    /\ pc = "Render"
    /\ preview
    /\ render("preview", 0,
              Wrote(c_of_slots, maskout_linked, maskout_path, depth_outputs),
              hide_render, masklinked)
    /\ pc' = "PreviewCopy"
    /\ UNCHANGED <<inputState, objectState, localState, scn_objects, nodes,
                   image_links, c_of_slots, maskout_linked, maskout_path,
                   imgout_path, masknodes, masklinked, depth_outputs, compimg,
                   raisedAt>>
    /\ UNCHANGED <<placeVars, weightVars>>

\* f"{ctx.interp_num:010}-{scn.frame_current}-{sensor_name}.png"
imgfilename == <<interp_num, "-">> \o Str(frame_current) \o <<"-", sensor_name, ".png">>

\* exec falls through to the full render instead of returning
AfterPreviewContinues == "Prepare"

\* where exec goes after the preview has been saved
AfterPreview == "Done"

\* lines 159-162
PreviewCopy ==
    /\ pc = "PreviewCopy"
    /\ File("images", imgfilename) \in files
    /\ files' = files \cup {File(".", <<"preview.png">>)}
    /\ calls' = calls \o <<Note("imread"), Note("imsave")>>
    /\ pc' = AfterPreview
    /\ UNCHANGED <<inputState, objectState, renderState, localState, scn_objects,
                   nodes, image_links, c_of_slots, maskout_linked, maskout_path,
                   imgout_path, masknodes, masklinked, depth_outputs, compimg,
                   raisedAt>>
    /\ UNCHANGED <<placeVars, weightVars>>

\* line 165
CompositeRender ==
    /\ pc = "Render"
    /\ ~preview
    /\ render("high", 0,
              Wrote(c_of_slots, maskout_linked, maskout_path, depth_outputs),
              hide_render, masklinked)
    /\ pc' = "Prepare"
    /\ UNCHANGED <<inputState, objectState, localState, scn_objects, nodes,
                   image_links, c_of_slots, maskout_linked, maskout_path,
                   imgout_path, masknodes, masklinked, depth_outputs, compimg,
                   raisedAt>>
    /\ UNCHANGED <<placeVars, weightVars>>

\* the slots of c_of are left in place
ClearSlotsKept(slots) == slots

\* c_of.file_slots.clear()
ClearSlots(slots) == <<>>

\* lines 168-200: obj.setup_mask(), depth/normal outputs, image slots cleared
PrepareMasks ==
    /\ pc = "Prepare"
    /\ masknodes' = Positions
    /\ masklinked' = Positions
    /\ maskout_linked' \in (IF objects = <<>> THEN BOOLEAN ELSE {TRUE})
    /\ depth_outputs' = (collect_depth = "T")
    /\ nodes' = nodes \cup (IF collect_depth = "T"
                            THEN {"Normalize", "File Output.001", "File Output.002"}
                            ELSE {})
    /\ c_of_slots' = ClearSlots(c_of_slots)
    /\ pc' = "MaskRender"
    /\ UNCHANGED <<inputState, objectState, renderState, localState, scn_objects,
                   image_links, maskout_path, imgout_path, files, compimg, calls,
                   raisedAt>>
    /\ UNCHANGED <<placeVars, weightVars>>

\* line 204: the combined ID-mask image is produced by the renderer
MaskRender ==
    /\ pc = "MaskRender"
    /\ \E img \in Images :
          compimg' = IF maskout_linked THEN img ELSE compimg
    /\ render("masks", 0,
              Wrote(c_of_slots, maskout_linked, maskout_path, depth_outputs),
              hide_render, masklinked)
    /\ pc' = "Obstruction"
    /\ UNCHANGED <<inputState, objectState, localState, scn_objects, nodes,
                   image_links, c_of_slots, maskout_linked, maskout_path,
                   imgout_path, masknodes, masklinked, depth_outputs, raisedAt>>
    /\ UNCHANGED <<placeVars, weightVars>>

\* the test of line 211 inverted
ObstructionDisabledInverted(c) == c # "F"

\* calculate_obstruction == 'F'
ObstructionDisabled(c) == c = "F"

\* line 213
WriteAnnotationsDirect ==
    /\ pc = "Obstruction"
    /\ ObstructionDisabled(calculate_obstruction)
    /\ calls' = Append(calls, Note("write_ana_annotations"))
    /\ pc' = "Metadata"
    /\ UNCHANGED <<inputState, objectState, renderState, localState, scn_objects,
                   nodes, image_links, c_of_slots, maskout_linked, maskout_path,
                   imgout_path, masknodes, masklinked, depth_outputs, files,
                   compimg, raisedAt>>
    /\ UNCHANGED <<placeVars, weightVars>>

\* exec re-enters the per-object stage after the metadata write
AfterMetadataAgain(c) == IF ObstructionDisabled(c) THEN "Done" ELSE "Loop"

\* where exec goes after write_ana_metadata
AfterMetadata(c) == IF ObstructionDisabled(c) THEN "Done" ELSE "Cleanup"

\* lines 214 and 271
WriteMetadata ==
    /\ pc = "Metadata"
    /\ calls' = Append(calls, Note("write_ana_metadata"))
    /\ pc' = AfterMetadata(calculate_obstruction)
    /\ UNCHANGED <<inputState, objectState, renderState, localState, scn_objects,
                   nodes, image_links, c_of_slots, maskout_linked, maskout_path,
                   imgout_path, masknodes, masklinked, depth_outputs, files,
                   compimg, raisedAt>>
    /\ UNCHANGED <<placeVars, weightVars>>

\* the links of ns are left in place
UnlinkedKept(ml, ns) == ml

\* links.remove(masknode.outputs[0].links[0]) for every node of ns
Unlinked(ml, ns) == ml \ ns

\* lines 219-231: every ID-mask link and the render-layer image links are removed
UnlinkMasks ==
    /\ pc = "Obstruction"
    /\ ~ObstructionDisabled(calculate_obstruction)
    /\ masknodes \subseteq masklinked
    /\ masklinks' = {<<objects[k], k>> : k \in masknodes}
    /\ masklinked' = Unlinked(masklinked, masknodes)
    /\ image_links' = {}
    /\ pc' = "ReadBack"
    /\ UNCHANGED <<inputState, objectState, renderState, scn_objects, nodes,
                   c_of_slots, maskout_linked, maskout_path, imgout_path,
                   masknodes, depth_outputs, files, compimg, calls,
                   renderedobjects, ii, imgpath, maskpath, raisedAt>>
    /\ UNCHANGED <<placeVars, weightVars>>

\* numpy.unique(compimg[numpy.nonzero(compimg)])
renderedobjectidxs(img) == {img[k] : k \in {j \in 1..Len(img) : img[j] # 0}}

\* the objects taken in the order of the ids of numpy.unique
RenderedObjectsByIdOrder(objs, img) ==
    LET G[v \in 0..MaxId + 1] ==
            IF v = 0 THEN <<>>
            ELSE IF v \in renderedobjectidxs(img) /\ v \in Range(objs)
                 THEN Append(G[v - 1], CHOOSE k \in 1..Len(objs) : objs[k] = v)
                 ELSE G[v - 1]
    IN  G[MaxId + 1]

\* [obj for obj in objects if obj.instance in renderedobjectidxs], as positions
RenderedObjects(objs, img) ==
    LET F[k \in 0..Len(objs)] ==
            IF k = 0 THEN <<>>
            ELSE IF objs[k] \in renderedobjectidxs(img)
                 THEN Append(F[k - 1], k)
                 ELSE F[k - 1]
    IN  F[Len(objs)]

\* the loop of line 244 without its assignment to hide_render
HideAllSkipped(h) == h

\* obj.root.hide_render = True for every object
HideAll(h) == [k \in DOMAIN h |-> TRUE]

\* the test of line 246 inverted
MarkNotRenderedInverted(r, ro) ==
    [k \in DOMAIN r |-> IF k \in Range(ro) THEN FALSE ELSE r[k]]

\* if obj not in renderedobjects: obj.rendered = False
MarkNotRendered(r, ro) ==
    [k \in DOMAIN r |-> IF k \notin Range(ro) THEN FALSE ELSE r[k]]

\* lines 233-250: the ID-mask image is read back and the objects are filtered
ReadBack ==
    /\ pc = "ReadBack"
    /\ compositemaskfile(maskout_path) \in files
    /\ calls' = Append(calls, Note("imread"))
    /\ renderedobjects' = RenderedObjects(objects, compimg)
    /\ hide_render' = HideAll(hide_render)
    /\ rendered' = MarkNotRendered(rendered, renderedobjects')
    /\ imgpath' = imgout_path
    /\ maskpath' = maskout_path
    /\ ii' = 0
    /\ pc' = "Loop"
    /\ UNCHANGED <<inputState, solo_mask_id, renderState, scn_objects, nodes,
                   image_links, c_of_slots, maskout_linked, maskout_path,
                   imgout_path, masknodes, masklinked, depth_outputs, files,
                   compimg, masklinks, raisedAt>>
    /\ UNCHANGED <<placeVars, weightVars>>

\* masklinks[instance]['masknode'], as the set of positions found under that key
MaskNodeOf(instance) == {p[2] : p \in {q \in masklinks : q[1] = instance}}

\* lines 252-261: the body of the per-object loop up to the render call
LoopBody(k) ==
    /\ solo_mask_id' = [solo_mask_id EXCEPT ![k] = SoloMaskId(objects[k])]
    /\ maskout_path' = SoloPath(maskpath, SoloMaskId(objects[k]))
    /\ imgout_path' = SoloPath(imgpath, SoloMaskId(objects[k]))
    /\ hide_render' = [hide_render EXCEPT ![k] = FALSE]
    /\ MaskNodeOf(objects[k]) # {}
    /\ masklinked' = masklinked \cup MaskNodeOf(objects[k])

\* lines 251-263: one per-object mask render
LoopRender ==
    /\ pc = "Loop"
    /\ ii < Len(renderedobjects)
    /\ LoopBody(renderedobjects[ii + 1])
    /\ render("low", renderedobjects[ii + 1],
              Wrote(c_of_slots, maskout_linked, maskout_path', depth_outputs),
              hide_render', masklinked')
    /\ pc' = "LoopRendered"
    /\ UNCHANGED <<inputState, rendered, localState, scn_objects, nodes,
                   image_links, c_of_slots, maskout_linked, masknodes,
                   depth_outputs, compimg, raisedAt>>
    /\ UNCHANGED <<placeVars, weightVars>>

\* line 266 left out: the object stays visible after its render
RehideSkipped(h, k) == h

\* obj.root.hide_render = True after the render
Rehide(h, k) == [h EXCEPT ![k] = TRUE]

\* lines 265-267: the object is hidden again and its mask link removed
LoopEnd ==
    /\ pc = "LoopRendered"
    /\ hide_render' = Rehide(hide_render, renderedobjects[ii + 1])
    /\ masklinked' = Unlinked(masklinked, MaskNodeOf(objects[renderedobjects[ii + 1]]))
    /\ ii' = ii + 1
    /\ pc' = "Loop"
    /\ UNCHANGED <<inputState, rendered, solo_mask_id, renderState, scn_objects,
                   nodes, image_links, c_of_slots, maskout_linked, maskout_path,
                   imgout_path, masknodes, depth_outputs, files, compimg, calls,
                   masklinks, renderedobjects, imgpath, maskpath, raisedAt>>
    /\ UNCHANGED <<placeVars, weightVars>>

\* line 270, reached when the per-object loop is exhausted
WriteAnnotations ==
    /\ pc = "Loop"
    /\ ii = Len(renderedobjects)
    /\ calls' = Append(calls, Note("write_ana_annotations"))
    /\ pc' = "Metadata"
    /\ UNCHANGED <<inputState, objectState, renderState, localState, scn_objects,
                   nodes, image_links, c_of_slots, maskout_linked, maskout_path,
                   imgout_path, masknodes, masklinked, depth_outputs, files,
                   compimg, raisedAt>>
    /\ UNCHANGED <<placeVars, weightVars>>

\* the files the two glob loops of Cleanup remove
Scratch(fs) ==
    Glob("masks", Replace(maskpath, "#", Str(frame_current)), fs)
    \cup Glob("images", Replace(imgpath, "#", Str(frame_current)), fs)

\* lines 273-283
Cleanup ==
    /\ pc = "Cleanup"
    /\ files' = files \ Scratch(files)
    /\ calls' = Append(calls, Note("cleanup"))
    /\ pc' = "Done"
    /\ UNCHANGED <<inputState, objectState, renderState, localState, scn_objects,
                   nodes, image_links, c_of_slots, maskout_linked, maskout_path,
                   imgout_path, masknodes, masklinked, depth_outputs, compimg,
                   raisedAt>>
    /\ UNCHANGED <<placeVars, weightVars>>

\* the exception is caught and Cleanup runs, as under a try/finally
RaisedCleansUp(at) ==
    /\ pc' = "Cleanup"
    /\ raisedAt' = at

\* the exception leaves exec: nothing in exec catches it
Raised(at) ==
    /\ pc' = "Raised"
    /\ raisedAt' = at

\* a render call, the read-back or a writer raises before it has any effect
Raise ==
    /\ pc \in {"Render", "PreviewCopy", "MaskRender", "ReadBack", "Metadata"}
       \/ (pc = "Obstruction" /\ ObstructionDisabled(calculate_obstruction))
       \/ (pc = "Loop" /\ ii = Len(renderedobjects))
    /\ Raised(pc)
    /\ UNCHANGED <<inputState, objectState, renderState, localState, scn_objects,
                   nodes, image_links, c_of_slots, maskout_linked, maskout_path,
                   imgout_path, masknodes, masklinked, depth_outputs, files,
                   compimg, calls>>
    /\ UNCHANGED <<placeVars, weightVars>>

\* render(resolution='low') raises: lines 252-261 have already run
RaiseInLoop ==
    /\ pc = "Loop"
    /\ ii < Len(renderedobjects)
    /\ LoopBody(renderedobjects[ii + 1])
    /\ Raised("LoopRender")
    /\ UNCHANGED <<inputState, rendered, renderState, localState, scn_objects,
                   nodes, image_links, c_of_slots, maskout_linked, masknodes,
                   depth_outputs, files, compimg, calls>>
    /\ UNCHANGED <<placeVars, weightVars>>

\* os.remove raises in Cleanup after some of the scratch files are gone
RaiseInCleanup ==
    /\ pc = "Cleanup"
    /\ \E gone \in SUBSET Scratch(files) :
          /\ gone # Scratch(files)
          /\ files' = files \ gone
    /\ Raised("Cleanup")
    /\ UNCHANGED <<inputState, objectState, renderState, localState, scn_objects,
                   nodes, image_links, c_of_slots, maskout_linked, maskout_path,
                   imgout_path, masknodes, masklinked, depth_outputs, compimg,
                   calls>>
    /\ UNCHANGED <<placeVars, weightVars>>

Next ==
    \/ Setup
    \/ PreviewRender
    \/ PreviewCopy
    \/ CompositeRender
    \/ PrepareMasks
    \/ MaskRender
    \/ WriteAnnotationsDirect
    \/ WriteMetadata
    \/ UnlinkMasks
    \/ ReadBack
    \/ LoopRender
    \/ LoopEnd
    \/ WriteAnnotations
    \/ Cleanup
    \/ Raise
    \/ RaiseInLoop
    \/ RaiseInCleanup

Spec == Init /\ [][Next]_vars

\* ---------------------------------------------------------------- placement
\* no render node is running
RenderIdle ==
    /\ pc = "Idle"
    /\ preview = FALSE
    /\ calculate_obstruction = "T"
    /\ collect_depth = "F"
    /\ lights = <<"">>
    /\ objects = <<>>
    /\ hide_render = <<>>
    /\ rendered = <<>>
    /\ solo_mask_id = <<>>
    /\ scn_objects = {}
    /\ resolution = <<1920, 1080>>
    /\ samples = 0
    /\ max_bounces = 0
    /\ nodes = {}
    /\ image_links = {}
    /\ c_of_slots = <<>>
    /\ maskout_linked = FALSE
    /\ maskout_path = <<>>
    /\ imgout_path = <<>>
    /\ masknodes = {}
    /\ masklinked = {}
    /\ depth_outputs = FALSE
    /\ files = {}
    /\ compimg = <<>>
    /\ calls = <<>>
    /\ masklinks = {}
    /\ renderedobjects = <<>>
    /\ ii = 0
    /\ imgpath = <<>>
    /\ maskpath = <<>>
    /\ raisedAt = ""

\* the hard cap on the number of placed objects
ObjectCap == 200

\* the empty-string sentinel of an optional port
Sentinel == <<>>

\* the name of the k-th link of a generator port
Link(k) == <<"gen">> \o Str(k)

\* a port with n generator links
Port(n) == [k \in 1..n |-> Link(k)]

\* requested counts: below, at and above the cap
Counts == {0, 1, 2, ObjectCap, MaxCount}

DigitValue(c) == CHOOSE d \in 0..9 : DigitChar[d + 1] = c

RECURSIVE int(_)
\* int(s) for a string of decimal digits
int(s) == IF Len(s) = 1 THEN DigitValue(s[1])
          ELSE 10 * int(SubSeq(s, 1, Len(s) - 1)) + DigitValue(s[Len(s)])

\* min(200, int(...)) with the cap forgotten
ObjectNumberUncapped(s) == int(s)

\* min(200, int(self.inputs["Number of Objects"][0]))
ObjectNumber(s) == IF int(s) < ObjectCap THEN int(s) ELSE ObjectCap

\* the next state of the shared random source; a draw returns it, out of 16
NextRng(r) == (5 * r + 3) % 16

\* file_to_objgen(port, cls): one generator of class cls per link
file_to_objgen(port, cls) == [k \in 1..Len(port) |-> [link |-> port[k], cls |-> cls]]

\* the branch a branch generator with uniform weights takes on the draw r
Branch(generators, r) == generators[(r % Len(generators)) + 1]

\* scale * (ctx.random.random() - 0.5) on the draw r, in units of 1/320
Jitter(scale10, r) == scale10 * (2 * r - 16)

\* ctx.random.uniform(0, 360) on the draw r, in units of 1/16 degree
Uniform360(r) == 360 * r

\* the horizontal jitter of the node, in tenths: 0.1 or 0.5
Scale10(n) == IF n = "Container" THEN 1 ELSE 5

\* the class of the objects the node generates
ObjectClass == "ToyboxChannelObject"

placeInputs == <<node, number_input, objects_input, floor_input, container_input,
                 seed, executions>>
dropState == <<drop_calls, world, collection, colliders, bakes>>

\* a placement node is about to run
InitPlacement ==
    /\ RenderIdle
    /\ WeightIdle
    /\ ppc = "Start"
    /\ node \in {"Container", "Random"}
    /\ number_input \in {Str(n) : n \in Counts}
    /\ objects_input \in {<<Sentinel>>} \cup {Port(n) : n \in 1..MaxGenerators}
    /\ floor_input \in {Port(n) : n \in 1..MaxGenerators}
    /\ container_input \in {<<Sentinel>>, Port(1)}
    /\ rng \in 0..MaxSeed
    /\ seed = rng
    /\ draws = <<>>
    /\ executions = <<>>
    /\ next_instance = 1
    /\ object_number = 0
    /\ object_list = <<>>
    /\ branch_generators = 0
    /\ branch_execs = 0
    /\ drop_calls = <<>>
    /\ world = [enabled |-> FALSE, frame_end |-> 250, frame_current |-> 1]
    /\ collection = <<>>
    /\ colliders = {}
    /\ bakes = <<>>
    /\ output = <<>>

\* drop called only inside the 'if' of line 40
AfterSkipReturns == "Return"

\* where exec goes when the object input is the sentinel: line 61
AfterSkip == "Drop"

\* lines 36-45 and 75-84: the count is capped, the sentinel tested and the
\* branch generator built
PlaceStart ==
    /\ ppc = "Start"
    /\ object_number' = ObjectNumber(number_input)
    /\ object_list' = <<>>
    /\ IF objects_input[1] # Sentinel
       THEN /\ branch_generators' = branch_generators + 1
            /\ ppc' = "Loop"
       ELSE /\ branch_generators' = branch_generators
            /\ ppc' = AfterSkip
    /\ UNCHANGED <<placeInputs, rng, draws, next_instance, branch_execs, dropState, output>>
    /\ UNCHANGED <<renderVars, weightVars>>

\* a draw from ctx.random: what it is used for and the value it returned
Draw(use, value) == [use |-> use, value |-> value]

\* the position jitter taken from a source of its own, whose state is the
\* instance counter and which the seed of ctx.random does not reach
PlacedUnseeded(it, r) ==
    LET r1 == NextRng(r)
        r2 == NextRng(r1)
        r3 == NextRng(r2)
        r4 == NextRng(r3)
        u1 == NextRng(next_instance % 16)
        u2 == NextRng(u1)
        g == Branch(file_to_objgen(objects_input, ObjectClass), r1)
    IN  [instance |-> next_instance, link |-> g.link, cls |-> g.cls,
         location |-> <<Jitter(Scale10(node), u1), Jitter(Scale10(node), u2),
                        20 + it>>,
         rotation_euler |-> <<Uniform360(r2), Uniform360(r3), Uniform360(r4)>>,
         draws |-> <<Draw("branch", r1), Draw("location.x", u1),
                     Draw("location.y", u2), Draw("rotation_euler.x", r2),
                     Draw("rotation_euler.y", r3), Draw("rotation_euler.z", r4)>>,
         rng |-> r4]

\* the object of iteration it: one draw for the branch, two for the position,
\* three for the rotation
Placed(it, r) ==
    LET r1 == NextRng(r)
        r2 == NextRng(r1)
        r3 == NextRng(r2)
        r4 == NextRng(r3)
        r5 == NextRng(r4)
        r6 == NextRng(r5)
        g == Branch(file_to_objgen(objects_input, ObjectClass), r1)
    IN  [instance |-> next_instance, link |-> g.link, cls |-> g.cls,
         location |-> <<Jitter(Scale10(node), r2), Jitter(Scale10(node), r3),
                        20 + it>>,
         rotation_euler |-> <<Uniform360(r4), Uniform360(r5), Uniform360(r6)>>,
         draws |-> <<Draw("branch", r1), Draw("location.x", r2),
                     Draw("location.y", r3), Draw("rotation_euler.x", r4),
                     Draw("rotation_euler.y", r5), Draw("rotation_euler.z", r6)>>,
         rng |-> r6]

\* lines 47-59 and 86-98: one iteration of the placement loop
PlaceObject ==
    /\ ppc = "Loop"
    /\ Len(object_list) < object_number
    /\ LET o == Placed(Len(object_list), rng)
       IN  /\ object_list' = Append(object_list,
                                    [instance |-> o.instance, link |-> o.link,
                                     cls |-> o.cls, location |-> o.location,
                                     rotation_euler |-> o.rotation_euler])
           /\ draws' = draws \o o.draws
           /\ rng' = o.rng
    /\ next_instance' = next_instance + 1
    /\ branch_execs' = branch_execs + 1
    /\ UNCHANGED <<placeInputs, object_number, branch_generators, dropState,
                   output, ppc>>
    /\ UNCHANGED <<renderVars, weightVars>>

\* the default frame_end, as when line 121 is left out
frame_end_default == 250

\* frame_end of the rigid-body point cache
frame_end == 50

\* lines 61 and 100, 111-122: drop is called and sets up the rigid-body world
DropWorld ==
    /\ \/ ppc = "Drop"
       \/ ppc = "Loop" /\ Len(object_list) = object_number
    /\ drop_calls' = Append(drop_calls, object_list)
    /\ world' = [enabled |-> TRUE, frame_end |-> frame_end,
                 frame_current |-> frame_current]
    /\ collection' = <<>>
    /\ ppc' = "DropLink"
    /\ UNCHANGED <<placeInputs, rng, draws, next_instance, object_number, object_list,
                   branch_generators, branch_execs, colliders, bakes, output>>
    /\ UNCHANGED <<renderVars, weightVars>>

\* an entry of the rigid-body collection
Linked(role, instance) == [role |-> role, instance |-> instance]

\* the loop of line 124 missing the first object
LinkAllButFirst(list) ==
    [k \in 1..Len(list) - 1 |-> Linked("object", list[k + 1].instance)]

\* the objects of the list, as entries of the collection
LinkAll(list) == [k \in 1..Len(list) |-> Linked("object", list[k].instance)]

\* lines 124-125
DropLink ==
    /\ ppc = "DropLink"
    /\ collection' = collection \o LinkAll(object_list)
    /\ ppc' = "DropFloor"
    /\ UNCHANGED <<placeInputs, rng, draws, next_instance, object_number, object_list,
                   branch_generators, branch_execs, drop_calls, world, colliders,
                   bakes, output>>
    /\ UNCHANGED <<renderVars, weightVars>>

\* the rigid-body type a linked object has by default
ColliderTypeActive == "ACTIVE"

\* the rigid-body type given to the floor and the container
ColliderType == "PASSIVE"

\* the rigid-body settings of lines 131-134 and 141-144
Collider(role, instance, link) ==
    [role |-> role, instance |-> instance, link |-> link, type |-> ColliderType,
     collision_shape |-> "MESH", use_margin |-> TRUE, collision_margin |-> "0.001"]

\* one instance of the port's generators is created, linked and made a collider
AddCollider(role, port) ==
    /\ rng' = NextRng(rng)
    /\ draws' = Append(draws, Draw(role, rng'))
    /\ next_instance' = next_instance + 1
    /\ collection' = Append(collection, Linked(role, next_instance))
    /\ colliders' = colliders \cup
          {Collider(role, next_instance,
                    Branch(file_to_objgen(port, "AnaObject"), rng').link)}

\* lines 127-134
DropFloor ==
    /\ ppc = "DropFloor"
    /\ AddCollider("floor", floor_input)
    /\ ppc' = "DropContainer"
    /\ UNCHANGED <<placeInputs, object_number, object_list, branch_generators,
                   branch_execs, drop_calls, world, bakes, output>>
    /\ UNCHANGED <<renderVars, weightVars>>

\* container_input[0] != ""
ContainerSupplied(port) == port[1] # Sentinel

\* lines 136-144, a container is supplied
DropContainer ==
    /\ ppc = "DropContainer"
    /\ ContainerSupplied(container_input)
    /\ AddCollider("container", container_input)
    /\ ppc' = "Bake"
    /\ UNCHANGED <<placeInputs, object_number, object_list, branch_generators,
                   branch_execs, drop_calls, world, bakes, output>>
    /\ UNCHANGED <<renderVars, weightVars>>

\* lines 136-137, the container input is the sentinel
DropNoContainer ==
    /\ ppc = "DropContainer"
    /\ ~ContainerSupplied(container_input)
    /\ ppc' = "Bake"
    /\ UNCHANGED <<placeInputs, rng, draws, next_instance, object_number, object_list,
                   branch_generators, branch_execs, dropState, output>>
    /\ UNCHANGED <<renderVars, weightVars>>

\* line 148: bpy.ops.ptcache.bake_all(), recorded with the world it bakes
Bake ==
    /\ ppc = "Bake"
    /\ bakes' = Append(bakes, [world |-> world, collection |-> collection,
                               colliders |-> colliders])
    /\ ppc' = "Return"
    /\ UNCHANGED <<placeInputs, rng, draws, next_instance, object_number, object_list,
                   branch_generators, branch_execs, drop_calls, world, collection,
                   colliders, output>>
    /\ UNCHANGED <<renderVars, weightVars>>

\* lines 63 and 102
Return ==
    /\ ppc = "Return"
    /\ output' = Append(output, object_list)
    /\ ppc' = "Done"
    /\ UNCHANGED <<placeInputs, rng, draws, next_instance, object_number, object_list,
                   branch_generators, branch_execs, dropState>>
    /\ UNCHANGED <<renderVars, weightVars>>

NextPlacement ==
    \/ PlaceStart
    \/ PlaceObject
    \/ DropWorld
    \/ DropLink
    \/ DropFloor
    \/ DropContainer
    \/ DropNoContainer
    \/ Bake
    \/ Return

PlacementSpec == InitPlacement /\ [][NextPlacement]_vars

\* root.location and root.rotation_euler of the objects of the list
Poses(list) ==
    [k \in 1..Len(list) |-> [location |-> list[k].location,
                             rotation_euler |-> list[k].rotation_euler]]

\* the state of the rigid-body world before any drop
WorldDefault == [enabled |-> FALSE, frame_end |-> 250, frame_current |-> 1]

\* the node is executed again on the same inputs with ctx.random seeded as
\* before; the instance counter goes on counting
Replay ==
    /\ ppc = "Done"
    /\ Len(executions) < MaxExecutions - 1
    /\ executions' = Append(executions, [poses |-> Poses(object_list),
                                         links |-> [k \in 1..Len(object_list) |->
                                                       object_list[k].link],
                                         draws |-> draws])
    /\ rng' = seed
    /\ draws' = <<>>
    /\ ppc' = "Start"
    /\ object_number' = 0
    /\ object_list' = <<>>
    /\ branch_generators' = 0
    /\ branch_execs' = 0
    /\ drop_calls' = <<>>
    /\ world' = WorldDefault
    /\ collection' = <<>>
    /\ colliders' = {}
    /\ bakes' = <<>>
    /\ output' = <<>>
    /\ UNCHANGED <<node, number_input, objects_input, floor_input,
                   container_input, seed, next_instance>>
    /\ UNCHANGED <<renderVars, weightVars>>

NextReplay ==
    \/ PlaceStart
    \/ PlaceObject
    \/ DropWorld
    \/ DropLink
    \/ DropFloor
    \/ DropContainer
    \/ DropNoContainer
    \/ Bake
    \/ Return
    \/ Replay

\* a placement node executed MaxExecutions times on one seed
ReplaySpec == InitPlacement /\ [][NextReplay]_vars

\* ---------------------------------------------------------------- weight
\* the characters a 'Weight' value is made of
Chars == {"2", "5", ".", "a", "-"}

Strings == UNION {[1..n -> Chars] : n \in 0..MaxStrLen}

IsDigit(c) == \E d \in 1..10 : DigitChar[d] = c

\* the string without its sign
Unsigned(s) == IF s # <<>> /\ s[1] \in {"-", "+"} THEN Tail(s) ELSE s

\* float(s) succeeds: an optional sign, digits and at most one point
IsFloat(s) ==
    LET u == Unsigned(s)
    IN  /\ \A k \in 1..Len(u) : IsDigit(u[k]) \/ u[k] = "."
        /\ Cardinality({k \in 1..Len(u) : u[k] = "."}) <= 1
        /\ \E k \in 1..Len(u) : IsDigit(u[k])

RECURSIVE Normal(_)
\* <<mantissa, decimals>> without trailing zero decimals
Normal(v) == IF v[2] > 0 /\ v[1] % 10 = 0 THEN Normal(<<v[1] \div 10, v[2] - 1>>)
             ELSE v

\* float(s), as <<mantissa, decimals>>: the value is mantissa / 10^decimals
float(s) ==
    LET u == Unsigned(s)
        m == int(SelectSeq(u, IsDigit))
        point == {k \in 1..Len(u) : u[k] = "."}
        d == IF point = {} THEN 0 ELSE Len(u) - (CHOOSE k \in point : TRUE)
    IN  Normal(<<IF s[1] = "-" THEN 0 - m ELSE m, d>>)

\* a Weight node is about to run
InitWeight ==
    /\ RenderIdle
    /\ PlacementIdle
    /\ wpc = "Start"
    /\ generator_input \in {Port(n) : n \in 0..MaxGenerators}
    /\ weight_input \in {<<>>} \cup {<<v>> : v \in Strings}
    /\ generator = <<>>
    /\ weight \in {<<1, 0>>, <<5, 1>>}
    /\ weight_before = weight
    /\ weight_error = ""

\* the port is rejected only when it has no link
PortInvalidOnlyEmpty(port) == Len(port) = 0

\* len(self.inputs["Generator"]) != 1
PortInvalid(port) == Len(port) # 1

\* lines 13-15
WeightPortError ==
    /\ wpc = "Start"
    /\ PortInvalid(generator_input)
    /\ weight_error' = "ValueError"
    /\ wpc' = "Raised"
    /\ UNCHANGED <<generator_input, weight_input, generator, weight, weight_before>>
    /\ UNCHANGED <<renderVars, placeVars>>

\* lines 16-17
WeightWrap ==
    /\ wpc = "Start"
    /\ ~PortInvalid(generator_input)
    /\ generator' = file_to_objgen(generator_input, "ExampleChannelObject")[1].link
    /\ wpc' = "Assign"
    /\ UNCHANGED <<generator_input, weight_input, weight, weight_before, weight_error>>
    /\ UNCHANGED <<renderVars, placeVars>>

\* float(self.inputs["Weight"][0]) returns
Converts(port) == port # <<>> /\ IsFloat(port[1])

\* lines 18-19 and 23: the conversion succeeds
WeightAssign ==
    /\ wpc = "Assign"
    /\ Converts(weight_input)
    /\ weight' = float(weight_input[1])
    /\ wpc' = "Returned"
    /\ UNCHANGED <<generator_input, weight_input, generator, weight_before,
                   weight_error>>
    /\ UNCHANGED <<renderVars, placeVars>>

\* lines 18-22: the conversion raises, the error is logged and raised again
WeightConversionError ==
    /\ wpc = "Assign"
    /\ ~Converts(weight_input)
    /\ weight_error' = IF weight_input = <<>> THEN "IndexError" ELSE "ValueError"
    /\ wpc' = "Raised"
    /\ UNCHANGED <<generator_input, weight_input, generator, weight, weight_before>>
    /\ UNCHANGED <<renderVars, placeVars>>

NextWeight ==
    \/ WeightPortError
    \/ WeightWrap
    \/ WeightAssign
    \/ WeightConversionError

WeightSpec == InitWeight /\ [][NextWeight]_vars

\* ---------------------------------------------------------------- properties
IsRender(e, res) == e.op = "render" /\ e.resolution = res

\* positions in the history of the render calls made with resolution res
CallsOf(res) == {k \in 1..Len(calls) : IsRender(calls[k], res)}

\* positions in the history of the calls named op
OpsOf(op) == {k \in 1..Len(calls) : calls[k].op = op}

\* a non-preview exec with obstruction enabled
Full == ~preview /\ calculate_obstruction # "F"

\* the distinct nonzero pixel values of the combined ID-mask image
IdsInImage == {compimg[j] : j \in 1..Len(compimg)} \ {0}

\* the objects whose instance id is in the image
Present == {k \in Positions : objects[k] \in IdsInImage}

\* the ID-mask image has been read back and the objects filtered
Discovered == Full /\ OpsOf("imread") # {}

\* the per-object loop has run to its end
LoopFinished == Full /\ OpsOf("write_ana_annotations") # {}

\* C1: in every per-object mask render call at most one object of the
\* 'Objects of Interest' list is visible, and it is the object whose mask is
\* being rendered.
C1_OneVisiblePerMaskRender ==
    /\ \A k \in CallsOf("low") :
          /\ Cardinality(calls[k].visible) <= 1
          /\ calls[k].visible = {calls[k].obj}
    /\ pc = "LoopRendered" =>
          Visible(hide_render) = {renderedobjects[ii + 1]}

C1_Witness ==
    /\ pc = "LoopRendered"
    /\ ii = 1
    /\ Len(objects) = 2
    /\ Visible(hide_render) = {renderedobjects[2]}

\* C2: in every per-object mask render call exactly one per-object ID-mask
\* link is connected, the one of the object being rendered; before the first
\* and after each iteration of the loop no per-object mask link is connected.
C2_OneMaskLinkPerMaskRender ==
    /\ \A k \in CallsOf("low") : calls[k].masklinked = {calls[k].obj}
    /\ pc = "LoopRendered" => masklinked = {renderedobjects[ii + 1]}
    /\ pc = "Loop" => masklinked = {}

C2_Witness ==
    /\ pc = "Loop"
    /\ ii = 2
    /\ Cardinality(CallsOf("low")) = 2
    /\ masklinked = {}

\* C3: after MaskDiscovery an object is marked not-rendered if and only if
\* its instance id is absent from the distinct nonzero pixel values of the
\* combined ID-mask image.
C3_NotRenderedIffAbsent ==
    Discovered =>
        \A k \in Positions : (rendered[k] = FALSE) <=> (objects[k] \notin IdsInImage)

C3_Witness ==
    /\ Discovered
    /\ \E k \in Positions : rendered[k]
    /\ \E k \in Positions : ~rendered[k]
    /\ \E v \in IdsInImage : v \notin Range(objects)

\* the per-object mask file of the object at position k
SoloFile(k) ==
    File("masks",
         Replace(maskoutFieldName, "#", Str(frame_current))
             \o <<"-", "obj">> \o Fmt03(objects[k]) \o <<".png">>)

\* C4: a full exec performs exactly one per-object mask render call for each
\* object whose instance id is in the ID-mask image and none for any other;
\* each call writes a file whose suffix is derived from the instance id, so the
\* per-object mask files are pairwise distinct and as many as the rendered
\* objects.
C4_OneMaskFilePerRenderedObject ==
    /\ \A k \in CallsOf("low") :
          /\ calls[k].obj \in Present
          /\ SoloFile(calls[k].obj) \in calls[k].wrote
          /\ \A j \in CallsOf("low") :
                j # k => /\ calls[j].obj # calls[k].obj
                         /\ SoloFile(calls[j].obj) \notin calls[k].wrote
    /\ LoopFinished =>
          /\ {calls[k].obj : k \in CallsOf("low")} = Present
          /\ Cardinality(CallsOf("low")) = Cardinality(Present)
          /\ Cardinality(UNION {calls[k].wrote \cap {SoloFile(j) : j \in Positions}
                                   : k \in CallsOf("low")})
                = Cardinality({k \in Positions : rendered[k]})

C4_Witness ==
    /\ LoopFinished
    /\ Cardinality(CallsOf("low")) = 2
    /\ collect_depth = "T"

\* the calls of the history, by name and resolution
OpNames == [k \in 1..Len(calls) |-> <<calls[k].op, calls[k].resolution>>]

\* C5 as stated: with obstruction disabled and preview off, exec terminates
\* after the CompositeRender render call plus the direct annotation/metadata
\* write, with no mask-discovery render call and no per-object render call.
C5_Original ==
    (~preview /\ calculate_obstruction = "F" /\ pc = "Done") =>
        /\ CallsOf("masks") = {}
        /\ CallsOf("low") = {}
        /\ OpNames = <<<<"render", "high">>, <<"write_ana_annotations", "">>,
                       <<"write_ana_metadata", "">>>>

\* C5: with obstruction disabled and preview off, exec skips the link
\* detach, the ID-mask read-back, PerObjectMask and Cleanup: it terminates
\* after the CompositeRender render call, the combined-mask render call
\* render(resolution='masks') and the direct annotation/metadata write, with
\* no per-object render call.
C5_DisabledSkipsPerObject ==
    (~preview /\ calculate_obstruction = "F") =>
        /\ CallsOf("low") = {}
        /\ OpsOf("imread") = {}
        /\ OpsOf("cleanup") = {}
        /\ renderedobjects = <<>>
        /\ \A k \in Positions : rendered[k] /\ ~hide_render[k]
        /\ pc = "Done" =>
              OpNames = <<<<"render", "high">>, <<"render", "masks">>,
                          <<"write_ana_annotations", "">>,
                          <<"write_ana_metadata", "">>>>

C5_Witness ==
    /\ ~preview
    /\ calculate_obstruction = "F"
    /\ pc = "Done"
    /\ Len(objects) = 2
    /\ Present # {}

\* C6 as stated: the render-layer image link and all per-object ID-mask
\* links are detached before the render(resolution='masks') call.
C6_Original ==
    \A k \in CallsOf("masks") :
        /\ calls[k].image_links = {}
        /\ calls[k].masklinked = {}

\* C6: before the render(resolution='masks') call only the slots of the image
\* file output are cleared; the render-layer image link and every per-object
\* ID-mask link are still connected during that call and are detached after
\* it, before the ID-mask read-back and the first per-object render.
C6_DetachAfterMaskRender ==
    /\ \A k \in CallsOf("masks") :
          /\ calls[k].image_links = {"Denoise"}
          /\ calls[k].masklinked = Positions
          /\ \A f \in calls[k].wrote : f.dir # "images"
    /\ ~preview =>
          \A k \in OpsOf("imread") \cup CallsOf("low") :
              /\ calls[k].image_links = {}
              /\ calls[k].masklinked \subseteq {calls[k].obj}
              /\ \E j \in CallsOf("masks") : j < k

C6_Witness ==
    /\ Len(objects) = 2
    /\ \E k \in CallsOf("masks") : calls[k].masklinked = {1, 2}
    /\ CallsOf("low") # {}
    /\ image_links = {}

\* C7: in preview mode exec performs exactly one render call, at preview
\* quality, copies the frame to the preview path and returns: no annotation or
\* metadata write, no mask-discovery or per-object render call, and no change
\* to any object's rendered flag, hide flag or solo mask id.
C7_PreviewTerminal ==
    preview =>
        /\ \A k \in Positions :
              ~hide_render[k] /\ rendered[k] /\ solo_mask_id[k] = <<>>
        /\ CallsOf("high") \cup CallsOf("masks") \cup CallsOf("low") = {}
        /\ OpsOf("write_ana_annotations") \cup OpsOf("write_ana_metadata") = {}
        /\ Cardinality(CallsOf("preview")) <= 1
        /\ \A k \in CallsOf("preview") :
              calls[k].samples = 8 /\ calls[k].max_bounces = 6
        /\ pc \in {"Setup", "Render", "PreviewCopy", "Done", "Raised"}
        /\ pc = "Done" =>
              /\ OpNames = <<<<"render", "preview">>, <<"imread", "">>,
                             <<"imsave", "">>>>
              /\ File(".", <<"preview.png">>) \in files

C7_Witness ==
    /\ preview
    /\ pc = "Done"
    /\ Len(objects) = 2
    /\ calculate_obstruction = "T"

\* the stage of the orchestrator a call belongs to
StageOf(e) ==
    IF IsRender(e, "high") THEN 1
    ELSE IF IsRender(e, "masks") \/ e.op = "imread" THEN 2
    ELSE IF IsRender(e, "low") THEN 3
    ELSE IF e.op \in {"write_ana_annotations", "write_ana_metadata"} THEN 4
    ELSE 5

Before(A, B) == \A j \in A, k \in B : j < k

\* C8: in a full exec the stages occur strictly in the order CompositeRender,
\* MaskDiscovery (mask render, then read-back), PerObjectMask, Annotate
\* (annotation, then metadata), Cleanup; none starts before the previous one
\* has finished and none is repeated.
C8_StagesInOrder ==
    Full =>
        /\ \A j, k \in 1..Len(calls) :
              j < k => StageOf(calls[j]) <= StageOf(calls[k])
        /\ \A S \in {CallsOf("high"), CallsOf("masks"), OpsOf("imread"),
                     OpsOf("write_ana_annotations"), OpsOf("write_ana_metadata"),
                     OpsOf("cleanup")} : Cardinality(S) <= 1
        /\ Before(CallsOf("masks"), OpsOf("imread"))
        /\ Before(OpsOf("write_ana_annotations"), OpsOf("write_ana_metadata"))
        /\ pc = "Done" =>
              /\ \A S \in {CallsOf("high"), CallsOf("masks"), OpsOf("imread"),
                           OpsOf("write_ana_annotations"),
                           OpsOf("write_ana_metadata"), OpsOf("cleanup")} :
                    Cardinality(S) = 1
              /\ Cardinality(CallsOf("low")) = Cardinality(Present)
              /\ calls[Len(calls)].op = "cleanup"

C8_Witness ==
    /\ Full
    /\ pc = "Done"
    /\ Len(calls) = 8

\* the composite image of the frame
CanonicalImage ==
    File("images", <<interp_num, "-", "5", "0", "-", sensor_name, ".png">>)

\* the combined ID mask of the frame
CanonicalMask ==
    File("masks", <<interp_num, "-", "5", "0", "-", sensor_name, ".png">>)

\* C9: after Cleanup of a full exec every per-object scratch mask file and
\* scratch image file of the frame is deleted, and the composite image and the
\* combined ID mask exist: exactly those two files remain.
C9_CleanupLeavesCanonical ==
    (Full /\ pc = "Done") =>
        /\ \A k \in Positions : SoloFile(k) \notin files
        /\ \A f \in files :
              /\ ~IsPrefix(SubSeq(CanonicalMask.name, 1, 6) \o <<"-">>, f.name)
              /\ ~IsPrefix(CanonicalImage.name \o <<"-">>, f.name)
        /\ files = {CanonicalImage, CanonicalMask}

C9_Witness ==
    /\ Full
    /\ pc = "Done"
    /\ collect_depth = "T"
    /\ \E j, k \in CallsOf("low") :
          j # k /\ SoloFile(calls[j].obj) \in calls[j].wrote
    /\ files = {CanonicalImage, CanonicalMask}

\* C10: an error raised by a render call, the read-back or any other stage
\* leaves exec uncaught: no annotation or metadata is written for a
\* half-completed pass (the annotation is written only after all per-object
\* renders), and Cleanup does not run, so the files already produced remain.
C10_ErrorsPropagate ==
    /\ raisedAt # "" => pc = "Raised"
    /\ raisedAt \notin {"", "Cleanup"} =>
          /\ OpsOf("cleanup") = {}
          /\ \A k \in 1..Len(calls) : calls[k].wrote \subseteq files
    /\ raisedAt \notin {"", "Metadata", "Cleanup"} =>
          OpsOf("write_ana_annotations") \cup OpsOf("write_ana_metadata") = {}
    /\ raisedAt = "Metadata" => OpsOf("write_ana_metadata") = {}
    /\ (Full /\ OpsOf("write_ana_annotations") # {}) =>
          /\ OpsOf("imread") # {}
          /\ {calls[k].obj : k \in CallsOf("low")} = Present

C10_Witness ==
    /\ pc = "Raised"
    /\ raisedAt = "LoopRender"
    /\ ii = 1
    /\ SoloFile(renderedobjects[1]) \in files
    /\ ~hide_render[renderedobjects[2]]

\* the depth output of the frame
DepthFile == File("masks", FrameFile(depthOutFieldName))

\* the normal output of the frame
NormalFile == File("masks", FrameFile(normalOutFieldName))

\* C16: with 'Collect Depth and Normal Masks' = 'T' the depth and normal
\* files are not written or overwritten by any per-object mask render call
\* and are not deleted by Cleanup.
C16_DepthIndependentOfMasks ==
    collect_depth = "T" =>
        /\ \A k \in CallsOf("low") :
              DepthFile \notin calls[k].wrote /\ NormalFile \notin calls[k].wrote
        /\ OpsOf("cleanup") # {} => {DepthFile, NormalFile} \subseteq files

\* C17: the composite image of the frame is written by exactly one render
\* call, the full-quality CompositeRender call; no later render call of the
\* same exec writes or overwrites it.
C17_ImageWrittenOnce ==
    ~preview =>
        /\ \A k \in 1..Len(calls) :
              CanonicalImage \in calls[k].wrote =>
                  /\ IsRender(calls[k], "high")
                  /\ calls[k].samples = 15 /\ calls[k].max_bounces = 12
        /\ Cardinality({k \in 1..Len(calls) : CanonicalImage \in calls[k].wrote}) <= 1
        /\ \A k \in CallsOf("high") : CanonicalImage \in calls[k].wrote
        /\ \A k \in CallsOf("masks") \cup CallsOf("low") :
              \A f \in calls[k].wrote : f.dir # "images"

C17_Witness ==
    /\ ~preview
    /\ Cardinality(CallsOf("low")) = 2
    /\ CallsOf("masks") # {}
    /\ CanonicalImage \in calls[1].wrote
    /\ CanonicalImage \in files

\* the objects of the per-object render calls, in the order of the calls
LowOrder ==
    LET F[k \in 0..Len(calls)] ==
            IF k = 0 THEN <<>>
            ELSE IF IsRender(calls[k], "low") THEN Append(F[k - 1], calls[k].obj)
                 ELSE F[k - 1]
    IN  F[Len(calls)]

\* C18: the per-object mask render calls visit the rendered objects in the
\* order in which they appear in the 'Objects of Interest' list, whatever the
\* order of the ids in the mask image.
C18_InputOrder ==
    /\ \A a, b \in 1..Len(LowOrder) : a < b => LowOrder[a] < LowOrder[b]
    /\ LoopFinished => Range(LowOrder) = Present

C18_Witness ==
    /\ LoopFinished
    /\ LowOrder = <<1, 2>>
    /\ objects[1] > objects[2]
    /\ compimg = <<objects[2], objects[1]>>

\* C19: every render call carries the quality of its pass: 15 samples / 12
\* bounces for CompositeRender, 8 / 6 for Preview, 1 / 1 for the mask-discovery
\* call and every per-object call.
C19_QualityPerPass ==
    /\ \A k \in CallsOf("high") :
          calls[k].samples = 15 /\ calls[k].max_bounces = 12
    /\ \A k \in CallsOf("preview") :
          calls[k].samples = 8 /\ calls[k].max_bounces = 6
    /\ \A k \in CallsOf("masks") \cup CallsOf("low") :
          calls[k].samples = 1 /\ calls[k].max_bounces = 1
    /\ pc \in {"LoopRendered", "Obstruction"} => samples = 1 /\ max_bounces = 1
    /\ pc = "Prepare" => samples = 15 /\ max_bounces = 12
    /\ pc = "PreviewCopy" => samples = 8 /\ max_bounces = 6

C19_Witness ==
    /\ pc = "LoopRendered"
    /\ samples = 1
    /\ max_bounces = 1
    /\ calls[1].samples = 15
    /\ calls[Len(calls)].resolution = "low"

\* the requested count n
Requested == CHOOSE n \in Counts : Str(n) = number_input

\* the number of objects a placement node is to produce
Expected ==
    IF objects_input[1] = Sentinel THEN 0
    ELSE IF Requested < 200 THEN Requested ELSE 200

\* how often e occurs in the sequence q
Count(q, e) == Cardinality({k \in 1..Len(q) : q[k] = e})

\* the entries of the collection with the given role
OfRole(q, role) == {k \in 1..Len(q) : q[k].role = role}

\* C11: both placement nodes return an 'Objects of Interest' list of exactly
\* min(n, 200) objects when 'Object Generators' is non-empty, one branch
\* generator invocation per object, and of 0 objects for the sentinel.
C11_ObjectCount ==
    /\ Len(object_list) <= 200
    /\ branch_execs = Len(object_list)
    /\ ppc = "Done" =>
          /\ Len(output) = 1
          /\ Len(output[1]) = Expected
          /\ branch_execs = Expected

C11_Witness ==
    /\ ppc = "Done"
    /\ node = "Random"
    /\ Requested = MaxCount
    /\ Len(output[1]) = 200

\* C12: after drop every object of object_list is linked into the rigid-body
\* collection exactly once, and the collection holds nothing but the placed
\* objects, the one floor instance and, when supplied, the one container.
C12_LinkedExactlyOnce ==
    ppc \in {"Return", "Done"} =>
        /\ \A k \in 1..Len(object_list) :
              Count(collection, Linked("object", object_list[k].instance)) = 1
        /\ Cardinality(OfRole(collection, "object")) = Len(object_list)
        /\ Cardinality(OfRole(collection, "floor")) = 1
        /\ Cardinality(OfRole(collection, "container")) =
              (IF container_input[1] = Sentinel THEN 0 ELSE 1)
        /\ \A k \in 1..Len(collection) :
              collection[k].role \in {"object", "floor", "container"}

C12_Witness ==
    /\ ppc = "Return"
    /\ Len(object_list) = 2
    /\ Len(collection) = 4

\* the colliders with the given role
Colliders(role) == {c \in colliders : c.role = role}

\* C13: every drop creates exactly one floor collider, PASSIVE with mesh
\* collision, however many floor candidates were supplied; a container
\* collider, also PASSIVE, is created iff 'Container Generator' is not the
\* sentinel, and then exactly one.
C13_OneFloorCollider ==
    /\ Cardinality(Colliders("floor")) <= 1
    /\ Cardinality(Colliders("container")) <= 1
    /\ \A c \in colliders : c.type = "PASSIVE" /\ c.collision_shape = "MESH"
    /\ container_input[1] = Sentinel => Colliders("container") = {}
    /\ ppc \in {"Bake", "Return", "Done"} =>
          /\ Cardinality(Colliders("floor")) = 1
          /\ Cardinality(Colliders("container")) =
                (IF container_input[1] = Sentinel THEN 0 ELSE 1)

C13_Witness ==
    /\ ppc = "Done"
    /\ Len(floor_input) = 2
    /\ container_input[1] = Sentinel
    /\ Cardinality(colliders) = 1

\* C14: with the sentinel as 'Object Generators' exec builds and invokes no
\* branch generator for objects but still runs drop, exactly once and with the
\* empty list; in every case drop is called only after all objects are placed,
\* with the list exec returns.
C14_DropAfterPlacement ==
    /\ objects_input[1] = Sentinel =>
          branch_generators = 0 /\ branch_execs = 0 /\ object_list = <<>>
    /\ Len(drop_calls) <= 1
    /\ \A k \in 1..Len(drop_calls) :
          /\ Len(drop_calls[k]) = Expected
          /\ drop_calls[k] = object_list
    /\ ppc = "Done" =>
          /\ Len(drop_calls) = 1
          /\ output = <<drop_calls[1]>>
          /\ Colliders("floor") # {}

C14_Witness ==
    /\ ppc = "Done"
    /\ objects_input[1] = Sentinel
    /\ Requested = 2
    /\ drop_calls = <<<<>>>>
    /\ container_input[1] # Sentinel

\* C20: bake_all is executed exactly once, after every placed object, the
\* floor and the optional container are linked and the floor and container
\* are passive, with the end frame and the current frame at 50.
C20_BakeLast ==
    /\ Len(bakes) <= 1
    /\ ppc = "Done" => Len(bakes) = 1
    /\ \A k \in 1..Len(bakes) :
          /\ bakes[k].world.enabled
          /\ bakes[k].world.frame_end = 50
          /\ bakes[k].world.frame_current = 50
          /\ \A j \in 1..Len(object_list) :
                Count(bakes[k].collection,
                      Linked("object", object_list[j].instance)) = 1
          /\ \E c \in bakes[k].colliders :
                /\ c.role = "floor" /\ c.type = "PASSIVE"
                /\ Count(bakes[k].collection, Linked("floor", c.instance)) = 1
          /\ container_input[1] # Sentinel =>
                \E c \in bakes[k].colliders :
                    /\ c.role = "container" /\ c.type = "PASSIVE"
                    /\ Count(bakes[k].collection,
                             Linked("container", c.instance)) = 1
          /\ bakes[k].collection = collection
          /\ bakes[k].colliders = colliders

C20_Witness ==
    /\ ppc = "Done"
    /\ Len(bakes) = 1
    /\ Len(object_list) = 2
    /\ Cardinality(bakes[1].colliders) = 2
    /\ Len(bakes[1].collection) = 4

\* the 'Weight' value is a number
Numeric == weight_input # <<>> /\ IsFloat(weight_input[1])

\* C15: Weight.exec fails without mutating the generator's weight whenever
\* the 'Generator' port does not hold exactly one link or the 'Weight' value is
\* not numeric: the weight after the call is the weight before it.
C15_FailsWithoutMutation ==
    (Len(generator_input) # 1 \/ ~Numeric) =>
        /\ weight = weight_before
        /\ wpc # "Returned"
        /\ wpc \notin {"Start", "Assign"} => wpc = "Raised" /\ weight_error # ""

C15_Witness ==
    /\ wpc = "Raised"
    /\ Len(generator_input) = 1
    /\ weight_input = <<<<"a", "a", "a">>>>
    /\ weight_error = "ValueError"
    /\ weight = <<5, 1>>

\* C22: after a full (non-preview, obstruction-enabled) exec returns, the
\* toggled scene state is not restored: every object of 'Objects of Interest'
\* is hidden from rendering, the objects marked rendered included, no
\* per-object mask link is connected and the render-layer image link remains
\* detached.
C22_StateNotRestored ==
    (Full /\ pc = "Done") =>
        /\ \A k \in Positions : hide_render[k]
        /\ masklinked = {}
        /\ image_links = {}

C22_Witness ==
    /\ Full
    /\ pc = "Done"
    /\ Len(objects) = 2
    /\ \E k \in Positions : rendered[k] /\ hide_render[k]
    /\ \E k \in Positions : ~rendered[k]
    /\ \E k \in CallsOf("low") : calls[k].masklinked # {} /\ calls[k].visible # {}
    /\ \E k \in CallsOf("high") : calls[k].image_links # {}
    /\ masklinked = {}
    /\ image_links = {}

\* the uses of the draws made for one object, in the order of lines 49-59
DrawOrder == <<"branch", "location.x", "location.y", "rotation_euler.x",
               "rotation_euler.y", "rotation_euler.z">>

\* the draws of this execution made for the k-th object of the list
DrawsOf(k) == SubSeq(draws, 6 * (k - 1) + 1, 6 * k)

====
